---- MODULE Spec2Model ----
(***************************************************************************)
(* Model of the cookie broker (src/cookies.ts, class Cookies) and of the   *)
(* binding hook useCookie (src/README.md, lines 30-55).                    *)
(*                                                                         *)
(* Strings are sequences of one-character strings, so that includes,       *)
(* indexOf, substring, startsWith and slice are computed, not assumed.     *)
(* JavaScript runs every handler to completion; the only place where       *)
(* foreign code runs in the middle of a handler is the forEach of the      *)
(* interceptor, which calls the subscribers.  That dispatch is modelled    *)
(* with a stack of frames, one callback invocation per step.               *)
(***************************************************************************)
EXTENDS Integers, Sequences, FiniteSets, TLC

\* Largest number of open subscriptions under one name (the code has no limit).
MaxSubs == 2

-----------------------------------------------------------------------------
(* Strings *)

Str(s) == [t |-> "string", s |-> s]
Null == [t |-> "null", s |-> <<>>]
Undefined == [t |-> "undefined", s |-> <<>>]
Num(digits) == [t |-> "number", s |-> digits]
\* The object {}; deep equality of two values is equality of their records.
Obj == [t |-> "object", s |-> <<>>]
\* The outcome of an expression that throws.
Throw == [t |-> "throw", s |-> <<>>]

NameA == <<"a">>
NameB == <<"b">>
Names == {NameA, NameB}
\* A text without "=" makes the browser store a cookie with the empty name.
NoName == <<>>

ValX == <<"x">>
JsonPrefix == <<"j", "s", "o", "n", ":">>
\* "json:{" : the prefix followed by text that is not JSON
ValBadJson == JsonPrefix \o <<"{">>
\* "json:1"
ValJson1 == JsonPrefix \o <<"1">>
\* The attribute js-cookie's remove() appends: "; expires=<a date in the past>".
\* "E" stands for the whole attribute text after the separator.
ExpiredAttr == <<";", "E">>

Min(a, b) == IF a < b THEN a ELSE b

\* String.prototype.indexOf for one character: 1-based, 0 when absent.
IndexOfChar(s, c) ==
    IF \E i \in 1..Len(s) : s[i] = c
    THEN CHOOSE i \in 1..Len(s) : s[i] = c /\ \A j \in 1..(i - 1) : s[j] # c
    ELSE 0

Includes(s, c) == IndexOfChar(s, c) # 0

StartsWith(s, p) == Len(s) >= Len(p) /\ SubSeq(s, 1, Len(p)) = p

Slice(s, n) == SubSeq(s, n + 1, Len(s))

Digits == {"0", "1", "2", "3", "4", "5", "6", "7", "8", "9"}

\* JSON.parse on the texts the model stores: null, {}, a decimal number
\* (no leading zero), or a syntax error.
JSONParse(s) ==
    IF s = <<"n", "u", "l", "l">> THEN Null
    ELSE IF s = <<"{", "}">> THEN Obj
    ELSE IF /\ Len(s) >= 1
            /\ \A i \in 1..Len(s) : s[i] \in Digits
            /\ (Len(s) > 1 => s[1] # "0")
         THEN Num(s)
    ELSE Throw

\* JSON.stringify of a non-string value.
JSONStringify(v) ==
    IF v.t = "number" THEN v.s
    ELSE IF v.t = "object" THEN <<"{", "}">>
    ELSE <<"n", "u", "l", "l">>

\* js-cookie percent-encodes (encodeURIComponent) the characters a cookie
\* text cannot hold and leaves the others; of the characters of the model
\* these are encoded:
Escapes ==
    [c \in {";", "%", ",", "="} |->
        IF c = ";" THEN <<"%", "3", "B">>
        ELSE IF c = "%" THEN <<"%", "2", "5">>
        ELSE IF c = "," THEN <<"%", "2", "C">>
        ELSE <<"%", "3", "D">>]

RECURSIVE EncodeWith(_, _)
\* s with every character of the set esc replaced by its escape
EncodeWith(s, esc) ==
    IF s = <<>> THEN <<>>
    ELSE (IF s[1] \in esc THEN Escapes[s[1]] ELSE <<s[1]>>) \o EncodeWith(Tail(s), esc)

\* js-cookie's converter.write: "=" (among others) is decoded back in a value
EncodeValue(s) == EncodeWith(s, {";", "%", ","})
\* in a name "=" stays encoded
EncodeName(s) == EncodeWith(s, {";", "%", ",", "="})

RECURSIVE Decode(_)
\* js-cookie's converter.read and its decoding of names: every %XX is decoded
Decode(s) ==
    IF s = <<>> THEN <<>>
    ELSE IF /\ Len(s) >= 3
            /\ \E c \in DOMAIN Escapes : Escapes[c] = SubSeq(s, 1, 3)
         THEN <<CHOOSE c \in DOMAIN Escapes : Escapes[c] = SubSeq(s, 1, 3)>>
                  \o Decode(SubSeq(s, 4, Len(s)))
    ELSE <<s[1]>> \o Decode(Tail(s))

-----------------------------------------------------------------------------
(* The platform cookie store and js-cookie *)

\* The browser's own document.cookie setter (setCookie, the original accessor):
\* "name=value" stores value under name, an expired cookie is deleted, a text
\* without "=" is stored under the empty name, the empty text is ignored.
OrigSetCookie(st, raw) ==
    LET semi == IndexOfChar(raw, ";")
        pair == IF semi = 0 THEN raw ELSE SubSeq(raw, 1, semi - 1)
        attrs == IF semi = 0 THEN <<>> ELSE SubSeq(raw, semi, Len(raw))
        eq == IndexOfChar(pair, "=")
        name == IF eq = 0 THEN NoName ELSE SubSeq(pair, 1, eq - 1)
        val == IF eq = 0 THEN pair ELSE SubSeq(pair, eq + 1, Len(pair))
    IN  IF pair = <<>> THEN st
        ELSE IF attrs = ExpiredAttr
        THEN [k \in (DOMAIN st) \ {name} |-> st[k]]
        ELSE [k \in (DOMAIN st) \cup {name} |-> IF k = name THEN val ELSE st[k]]

\* JSCookies.get(name): the decoded text of the cookie whose decoded name is
\* name, or undefined.
JSCookiesGet(st, name) ==
    IF \E k \in DOMAIN st : k # NoName /\ Decode(k) = name
    THEN Str(Decode(st[CHOOSE k \in DOMAIN st : k # NoName /\ Decode(k) = name]))
    ELSE Undefined

\* JSCookies.set(name, value, options) assigns name=value, both encoded, to
\* document.cookie.
JSCookiesSetRaw(name, value) == EncodeName(name) \o <<"=">> \o EncodeValue(value)

\* JSCookies.remove(name, options) assigns an expired, empty cookie.
JSCookiesRemoveRaw(name) == EncodeName(name) \o <<"=">> \o ExpiredAttr

\* Cookies.get(name, defaultValue)
Get(st, name, defaultValue) ==
    LET res == JSCookiesGet(st, name)
    IN  IF res = Undefined THEN defaultValue
        ELSE IF StartsWith(res.s, JsonPrefix) THEN JSONParse(Slice(res.s, 5))
        ELSE res

\* The text Cookies.set(name, value, options) assigns to document.cookie.
SetRaw(name, value) ==
    IF value = Undefined THEN JSCookiesRemoveRaw(name)
    ELSE IF value.t = "string" THEN JSCookiesSetRaw(name, value.s)
    ELSE JSCookiesSetRaw(name, JsonPrefix \o JSONStringify(value))

-----------------------------------------------------------------------------
(* The subscriber registry *)

Hooks == {"h1", "h2"}
\* Callback functions: the closure of each hook, and two callbacks of
\* application code: "w" writes a cookie from inside the notification,
\* "o" unsubscribes itself on its first notification and then writes.
Fns == Hooks \cup {"w", "o"}
HookName(h) == NameA
\* The value every hook passes as defaultValue.
DefaultValue == Str(<<"d">>)

\* Array.prototype.indexOf: 0-based, -1 when absent.
IndexOf(arr, f) ==
    IF \E i \in 1..Len(arr) : arr[i] = f
    THEN (CHOOSE i \in 1..Len(arr) : arr[i] = f /\ \A j \in 1..(i - 1) : arr[j] # f) - 1
    ELSE -1

\* splice that starts one element too late: the element at start stays.
SpliceAfter(arr, start) ==
    LET from == IF start < 0
                THEN (IF Len(arr) + start < 0 THEN 0 ELSE Len(arr) + start)
                ELSE Min(start, Len(arr))
    IN  SubSeq(arr, 1, Min(from + 1, Len(arr)))

\* Array.prototype.splice(start) with its one argument: everything from
\* start to the end is removed; a negative start counts from the end.
SpliceFrom(arr, start) ==
    LET from == IF start < 0
                THEN (IF Len(arr) + start < 0 THEN 0 ELSE Len(arr) + start)
                ELSE Min(start, Len(arr))
    IN  SubSeq(arr, 1, from)

\* The closure subscribe(name, f) returns.
Unsub(subs, name, f) ==
    [subs EXCEPT ![name] = SpliceFrom(subs[name], IndexOf(subs[name], f))]

\* subscribe with one array shared by all names: f is pushed to every entry.
PushSubEveryName(subs, name, f) ==
    [k \in (DOMAIN subs) \cup {name} |->
        Append(IF k \in DOMAIN subs THEN subs[k] ELSE <<>>, f)]

\* Lines 143-146 of subscribe: create the entry if absent, push f.
PushSub(subs, name, f) ==
    [k \in (DOMAIN subs) \cup {name} |->
        IF k = name
        THEN Append(IF name \in DOMAIN subs THEN subs[name] ELSE <<>>, f)
        ELSE subs[k]]

\* #startIntercepting without its first check (lines 64-66).
StartInterceptingUnguarded(intercepting, enabled, conf) ==
    IF ~enabled THEN "disabled"
    ELSE IF conf = "proto_locked" THEN "blocked"
    ELSE IF conf = "own_locked" THEN "threw"
    ELSE "installed"

\* #startIntercepting without the check of navigator.cookieEnabled (lines 69-71).
StartInterceptingIgnoringDisabled(intercepting, enabled, conf) ==
    IF intercepting THEN "already"
    ELSE IF conf = "proto_locked" THEN "blocked"
    ELSE IF conf = "own_locked" THEN "threw"
    ELSE "installed"

\* #startIntercepting: which of its exits is taken.  conf is the state of the
\* cookie property: "free", "proto_locked" (the descriptor of
\* Document.prototype is not configurable) or "own_locked" (document has a
\* non-configurable own property, so Object.defineProperty throws TypeError).
StartIntercepting(intercepting, enabled, conf) ==
    IF intercepting THEN "already"
    ELSE IF ~enabled THEN "disabled"
    ELSE IF conf = "proto_locked" THEN "blocked"
    ELSE IF conf = "own_locked" THEN "threw"
    ELSE "installed"

Entry(subs, name) == IF name \in DOMAIN subs THEN subs[name] ELSE <<>>

-----------------------------------------------------------------------------
(* The interceptor *)

OrigEvent(raw, d) ==
    [e |-> "orig", f |-> "", name |-> <<>>, raw |-> raw, new |-> Null, old |-> Null,
     d |-> d, stale |-> FALSE]
CallEvent(f, name, new, old, d, stale) ==
    [e |-> "call", f |-> f, name |-> name, raw |-> <<>>, new |-> new, old |-> old,
     d |-> d, stale |-> stale]
UnsubEvent(f, name, d) ==
    [e |-> "unsub", f |-> f, name |-> name, raw |-> <<>>, new |-> Null, old |-> Null,
     d |-> d, stale |-> FALSE]
ThrowEvent(d) ==
    [e |-> "throw", f |-> "", name |-> <<>>, raw |-> <<>>, new |-> Null, old |-> Null,
     d |-> d, stale |-> FALSE]

NoFrame == <<>>

\* setter with the old value read after the real write instead of before it.
SetterLateOld(st, subs, raw, d) ==
    IF ~Includes(raw, "=")
    THEN [store |-> OrigSetCookie(st, raw), threw |-> FALSE,
          events |-> <<OrigEvent(raw, d)>>, frames |-> NoFrame]
    ELSE LET name == SubSeq(raw, 1, IndexOfChar(raw, "=") - 1)
             st1 == OrigSetCookie(st, raw)
             oldValue == Get(st1, name, Null)
             newValue == Get(st1, name, Null)
         IN  IF newValue = Throw
             THEN [store |-> st1, threw |-> TRUE,
                   events |-> <<OrigEvent(raw, d), ThrowEvent(d)>>, frames |-> NoFrame]
             ELSE [store |-> st1, threw |-> FALSE,
                   events |-> <<OrigEvent(raw, d)>>,
                   frames |-> <<[name |-> name, new |-> newValue, old |-> oldValue,
                                 k |-> 0, len |-> Len(Entry(subs, name))]>>]

\* setter without its first check (lines 99-101): a text without "=" is taken
\* for the name of a cookie.
SetterWholeTextAsName(st, subs, raw, d) ==
    LET name == IF Includes(raw, "=") THEN SubSeq(raw, 1, IndexOfChar(raw, "=") - 1)
                ELSE raw
        oldValue == Get(st, name, Null)
        st1 == OrigSetCookie(st, raw)
        newValue == Get(st1, name, Null)
    IN  IF oldValue = Throw
        THEN [store |-> st, threw |-> TRUE,
              events |-> <<ThrowEvent(d)>>, frames |-> NoFrame]
        ELSE IF newValue = Throw
        THEN [store |-> st1, threw |-> TRUE,
              events |-> <<OrigEvent(raw, d), ThrowEvent(d)>>, frames |-> NoFrame]
        ELSE [store |-> st1, threw |-> FALSE,
              events |-> <<OrigEvent(raw, d)>>,
              frames |-> <<[name |-> name, new |-> newValue, old |-> oldValue,
                            k |-> 0, len |-> Len(Entry(subs, name))]>>]

\* function setter(value), lines 97-126, up to the forEach: the store after
\* it, whether it threw, the events it produced and the dispatch frame it
\* starts (NoFrame if none).  d is the number of dispatches in progress.
Setter(st, subs, raw, d) ==
    IF ~Includes(raw, "=")
    THEN [store |-> OrigSetCookie(st, raw), threw |-> FALSE,
          events |-> <<OrigEvent(raw, d)>>, frames |-> NoFrame]
    ELSE LET name == SubSeq(raw, 1, IndexOfChar(raw, "=") - 1)
             oldValue == Get(st, name, Null)
             st1 == OrigSetCookie(st, raw)
             newValue == Get(st1, name, Null)
         IN  IF oldValue = Throw
             THEN [store |-> st, threw |-> TRUE,
                   events |-> <<ThrowEvent(d)>>, frames |-> NoFrame]
             ELSE IF newValue = Throw
             THEN [store |-> st1, threw |-> TRUE,
                   events |-> <<OrigEvent(raw, d), ThrowEvent(d)>>, frames |-> NoFrame]
             ELSE [store |-> st1, threw |-> FALSE,
                   events |-> <<OrigEvent(raw, d)>>,
                   frames |-> <<[name |-> name, new |-> newValue, old |-> oldValue,
                                 k |-> 0, len |-> Len(Entry(subs, name))]>>]

\* document.cookie = raw
AssignCookie(intercepting, st, subs, raw, d) ==
    IF intercepting THEN Setter(st, subs, raw, d)
    ELSE [store |-> OrigSetCookie(st, raw), threw |-> FALSE,
          events |-> <<OrigEvent(raw, d)>>, frames |-> NoFrame]

\* forEach visits index k while k < len (the length when it started) and
\* skips an index the array no longer has; no callback of the model adds
\* an element during a dispatch, so a frame whose k is past the array is done.
FrameDone(fr, subs) == fr.k >= Min(fr.len, Len(Entry(subs, fr.name)))

RECURSIVE Unwind(_, _)
\* Return from every forEach that has no callback left to call.
Unwind(stk, subs) ==
    IF stk = <<>> THEN stk
    ELSE IF FrameDone(stk[Len(stk)], subs) THEN Unwind(SubSeq(stk, 1, Len(stk) - 1), subs)
    ELSE stk

-----------------------------------------------------------------------------
(* State *)

VARIABLES
    store,          \* the browser's cookies: name -> stored text
    subscribers,    \* Cookies.#subscribers: name -> array of callbacks
    isIntercepting, \* Cookies.#isIntercepting
    cookieEnabled,  \* navigator.cookieEnabled
    conf,           \* state of the cookie property, see StartIntercepting
    closures,       \* unsubscribe closures application code holds: <<name, f>>
    hooks,          \* useCookie instances: mounted, holds a cleanup, state
    stack,          \* forEach dispatches in progress, innermost last
    installs,       \* history: number of Object.defineProperty calls made
    active,         \* history: name -> callbacks subscribed and not unsubscribed, in order
    op,             \* history: the operation application code called last
    log             \* history: what that operation has done so far

vars == <<store, subscribers, isIntercepting, cookieEnabled, conf, closures, hooks,
          stack, installs, active, op, log>>

EmptyStore == [k \in {} |-> <<>>]
EmptyRegistry == [k \in {} |-> <<>>]
\* A useCookie instance.  literal: the component passes an object literal as
\* defaultValue, a new object on every render (README.md line 9); then dirty
\* (a state change asked for a re-render), effect (the effect is scheduled),
\* did (which object the default of the last render is) and rid (which
\* object the state is) are kept as well.  A component whose default keeps
\* its identity re-renders without running the effect again, which changes
\* nothing here: its re-renders are not steps.
Unmounted ==
    [mounted |-> FALSE, subscribed |-> FALSE, result |-> DefaultValue,
     literal |-> FALSE, dirty |-> FALSE, effect |-> FALSE, did |-> 0, rid |-> "prim"]

NoOp ==
    [kind |-> "init", name |-> <<>>, f |-> "", raw |-> <<>>, value |-> Null,
     pre |-> EmptyStore, post |-> EmptyStore, before |-> EmptyRegistry,
     expect |-> <<>>, outcome |-> "", was |-> FALSE, threw |-> FALSE]

\* Texts application code assigns to document.cookie directly.
DirectWrites ==
    { NameA \o <<"=">> \o ValX,
      NameA \o <<"=">> \o ValBadJson,
      <<>> }
\* Arguments of Cookies.set calls made by application code.
SetCalls == { <<NameB, Str(ValX)>> }
\* Values passed to the setter a hook returns.
HookValues == { Str(ValX), Undefined }
\* Texts assigned to document.cookie where texts without "=" are looked at:
\* the text "a" and the empty text have none.
PassthroughWrites ==
    { NameA, <<>>, NameA \o <<"=">> \o ValX, NameA \o <<"=">> \o ValBadJson }
\* Values application code passes to Cookies.set where the stored text is
\* looked at: strings (one empty, two that start with "json:", one that
\* holds a separator), structured values and undefined.
CodecValues ==
    { Str(ValX), Str(<<>>), Str(ValJson1), Str(ValBadJson), Str(ExpiredAttr),
      Num(<<"2", "0">>), Null, Obj, Undefined }
CodecCalls == { <<NameA, v>> : v \in CodecValues }
\* Values passed to Cookies.get as defaultValue.
Defaults == { DefaultValue, Null, Num(<<"0">>) }
\* Components that pass an object literal as default, and the values passed
\* to the setters their hooks return.
LiteralHooks == {"h1"}
HookLiteralValues == { Str(ValX), Obj, Undefined }
\* subscribe calls made by application code.
GenericSubs == { <<NameA, "w">>, <<NameB, "o">> }

RemoveFirst(seq, f) ==
    LET i == IndexOf(seq, f)
    IN  IF i < 0 THEN seq ELSE SubSeq(seq, 1, i) \o SubSeq(seq, i + 2, Len(seq))

Idle == stack = <<>>

Range(seq) == {seq[i] : i \in 1..Len(seq)}

\* Application code keeps the closure of every subscribe call it made.
HasClosure(name, f) == <<name, f>> \in closures

\* The part of the store that is about name.
Only(st, name) == [k \in (DOMAIN st) \cap {name} |-> st[k]]

\* The name the interceptor extracts from raw.
RawName(raw) == SubSeq(raw, 1, IndexOfChar(raw, "=") - 1)

Init ==
    /\ store = EmptyStore
    /\ subscribers = EmptyRegistry
    /\ isIntercepting = FALSE
    /\ cookieEnabled = TRUE
    /\ conf = "free"
    /\ hooks = [h \in Hooks |-> Unmounted]
    /\ stack = <<>>
    /\ installs = 0
    /\ active = [n \in Names |-> <<>>]
    /\ closures = {}
    /\ op = NoOp
    /\ log = <<>>

-----------------------------------------------------------------------------
(* Operations *)

\* The environments <<navigator.cookieEnabled, state of the property>> that
\* #startIntercepting tells apart: with cookies disabled it returns before
\* it reads the property.
Envs == {<<TRUE, "free">>, <<FALSE, "free">>, <<TRUE, "proto_locked">>,
         <<TRUE, "own_locked">>}
\* The environments in which #startIntercepting does not install.
DegradedEnvs == Envs \ {<<TRUE, "free">>}

\* navigator.cookieEnabled or the cookie property changes (a browser setting,
\* another script), to one of envs.  Nothing reads them once the interceptor
\* is installed.
EnvChange(envs) ==
    /\ Idle
    /\ ~isIntercepting
    /\ \E e \in envs :
        /\ e # <<cookieEnabled, conf>>
        /\ cookieEnabled' = e[1]
        /\ conf' = e[2]
    /\ op' = [NoOp EXCEPT !.kind = "env"]
    /\ log' = <<>>
    /\ UNCHANGED <<store, subscribers, isIntercepting, closures, hooks, stack,
                   installs, active>>

\* The registry and flag after Cookies.subscribe(name, f) with outcome out of
\* #startIntercepting: a TypeError from defineProperty leaves before the push.
SubscribeEffect(name, f, out) ==
    /\ isIntercepting' = (isIntercepting \/ out = "installed")
    /\ installs' = IF out = "installed" THEN installs + 1 ELSE installs
    /\ subscribers' = IF out = "threw" THEN subscribers ELSE PushSub(subscribers, name, f)
    /\ active' = IF out = "threw" THEN active ELSE [active EXCEPT ![name] = Append(@, f)]

\* Cookies.subscribe(name, f) called by application code, which subscribes a
\* function under a name only while it has no open subscription of it there.
Subscribe(name, f) ==
    /\ Idle
    /\ Len(active[name]) < MaxSubs
    /\ f \notin Range(active[name])
    /\ LET out == StartIntercepting(isIntercepting, cookieEnabled, conf)
       IN  /\ SubscribeEffect(name, f, out)
           /\ closures' = IF out = "threw" THEN closures ELSE closures \cup {<<name, f>>}
           /\ op' = [NoOp EXCEPT !.kind = "subscribe", !.name = name, !.f = f,
                                 !.outcome = out,
                                 !.was = isIntercepting, !.threw = (out = "threw")]
    /\ log' = <<>>
    /\ UNCHANGED <<store, cookieEnabled, conf, hooks, stack>>

\* Application code calls an unsubscribe closure it holds (again, possibly).
Unsubscribe(name, f) ==
    /\ Idle
    /\ HasClosure(name, f)
    /\ subscribers' = Unsub(subscribers, name, f)
    /\ active' = [active EXCEPT ![name] = RemoveFirst(@, f)]
    /\ op' = [NoOp EXCEPT !.kind = "unsubscribe", !.name = name, !.f = f,
                          !.before = subscribers, !.was = isIntercepting]
    /\ log' = <<>>
    /\ UNCHANGED <<store, isIntercepting, cookieEnabled, conf, closures, hooks, stack,
                   installs>>

\* An assignment to document.cookie made outside any dispatch.
TopWrite(kind, f, value, raw) ==
    LET r == AssignCookie(isIntercepting, store, subscribers, raw, 0)
        name == IF Includes(raw, "=") THEN RawName(raw) ELSE NoName
    IN  /\ store' = r.store
        /\ stack' = Unwind(r.frames, subscribers)
        /\ log' = r.events
        /\ op' = [NoOp EXCEPT !.kind = kind, !.name = name, !.f = f, !.raw = raw,
                              !.value = value,
                              !.pre = IF isIntercepting THEN Only(store, name)
                                      ELSE EmptyStore,
                              !.post = IF isIntercepting THEN Only(r.store, name)
                                       ELSE EmptyStore,
                              !.expect = IF isIntercepting /\ name \in Names
                                         THEN active[name] ELSE <<>>,
                              !.was = isIntercepting, !.threw = r.threw]
        /\ UNCHANGED <<subscribers, isIntercepting, cookieEnabled, conf, closures, hooks, installs,
                       active>>

\* document.cookie = raw by application code
Assign(raw) ==
    /\ Idle
    /\ TopWrite("assign", "", Null, raw)

\* Cookies.set(name, value) by application code
CookiesSet(name, value) ==
    /\ Idle
    /\ TopWrite("set", "", value, SetRaw(name, value))

-----------------------------------------------------------------------------
(* useCookie *)

\* The effect of useCookie runs (README.md lines 34-47): read the cookie into
\* the state, subscribe.  An exception (JSON.parse in get, defineProperty in
\* subscribe) ends the effect where it is raised, without a cleanup.
Mount(h) ==
    LET name == HookName(h)
        v == Get(store, name, DefaultValue)
        out == StartIntercepting(isIntercepting, cookieEnabled, conf)
    IN  /\ Idle
        /\ ~hooks[h].mounted
        /\ Len(active[name]) < MaxSubs
        /\ IF v = Throw
           THEN /\ hooks' = [hooks EXCEPT ![h] = [Unmounted EXCEPT !.mounted = TRUE]]
                /\ UNCHANGED <<subscribers, isIntercepting, installs, active>>
           ELSE /\ hooks' = [hooks EXCEPT ![h] =
                                [Unmounted EXCEPT !.mounted = TRUE,
                                                  !.subscribed = (out # "threw"),
                                                  !.result = v]]
                /\ SubscribeEffect(name, h, out)
        /\ op' = [NoOp EXCEPT !.kind = "mount", !.name = name, !.f = h,
                              !.outcome = IF v = Throw THEN "" ELSE out,
                              !.was = isIntercepting,
                              !.threw = (v = Throw \/ out = "threw")]
        /\ log' = <<>>
        /\ UNCHANGED <<store, cookieEnabled, conf, closures, stack>>

\* The default value of a component that passes an object literal.
LiteralDefault == Obj

\* Which object a value is.  Every render makes a new default object, and a
\* state that is a default object is replaced by the next effect run, so two
\* names tell the default of a render from that of the render before it;
\* every object JSON.parse returns is new; a primitive is its value.
LitId(did) == IF did = 0 THEN "lit0" ELSE "lit1"
\* The identity of what Cookies.get(name, default of render did) returned.
ReadId(v, absent, did) ==
    IF absent THEN LitId(did)
    ELSE IF v.t = "object" THEN "parsed"
    ELSE "prim"

\* The state setter of useState: the new state is compared with the current
\* one by identity (objects) or value (primitives); a re-render is asked
\* for only if it differs.
SetResult(hk, v, vid) ==
    IF ~hk.literal THEN [hk EXCEPT !.result = v]
    ELSE LET same == IF v.t = "object" THEN vid = hk.rid /\ vid # "parsed"
                     ELSE v = hk.result
         IN  [hk EXCEPT !.result = v, !.rid = vid, !.dirty = (@ \/ ~same)]

\* useCookie(name, {...}) mounts: first render (useState, line 32) and first
\* run of the effect (lines 34-47), for a default that is an object literal.
MountLiteral(h) ==
    LET name == HookName(h)
        v == Get(store, name, LiteralDefault)
        absent == JSCookiesGet(store, name) = Undefined
        out == StartIntercepting(isIntercepting, cookieEnabled, conf)
        first == [Unmounted EXCEPT !.mounted = TRUE, !.literal = TRUE,
                                   !.result = LiteralDefault, !.rid = LitId(0)]
    IN  /\ Idle
        /\ ~hooks[h].mounted
        /\ Len(active[name]) < MaxSubs
        /\ IF v = Throw
           THEN /\ hooks' = [hooks EXCEPT ![h] = first]
                /\ UNCHANGED <<subscribers, isIntercepting, installs, active>>
           ELSE /\ hooks' = [hooks EXCEPT ![h] =
                                [SetResult(first, v, ReadId(v, absent, 0))
                                    EXCEPT !.subscribed = (out # "threw")]]
                /\ SubscribeEffect(name, h, out)
        /\ op' = [NoOp EXCEPT !.kind = "mount", !.name = name, !.f = h,
                              !.outcome = IF v = Throw THEN "" ELSE out,
                              !.was = isIntercepting,
                              !.threw = (v = Throw \/ out = "threw")]
        /\ log' = <<>>
        /\ UNCHANGED <<store, cookieEnabled, conf, closures, stack>>

\* The framework renders the component again after a state change.  The
\* default is a new object, so the dependency of the effect (line 47) has
\* changed and the effect is scheduled.  A scheduled effect runs first.
Rerender(h) ==
    /\ Idle
    /\ hooks[h].mounted
    /\ hooks[h].literal
    /\ hooks[h].dirty
    /\ ~hooks[h].effect
    /\ hooks' = [hooks EXCEPT ![h].dirty = FALSE, ![h].effect = TRUE,
                              ![h].did = 1 - @]
    /\ op' = [NoOp EXCEPT !.kind = "render", !.f = h, !.was = isIntercepting]
    /\ log' = <<>>
    /\ UNCHANGED <<store, subscribers, isIntercepting, cookieEnabled, conf, closures,
                   stack, installs, active>>

\* The effect runs again: the cleanup of its last run (lines 44-46), then
\* lines 36-41 with the default of the last render.
RunEffect(h) ==
    LET name == HookName(h)
        hk == hooks[h]
        subs1 == IF hk.subscribed THEN Unsub(subscribers, name, h) ELSE subscribers
        act1 == IF hk.subscribed THEN [active EXCEPT ![name] = RemoveFirst(@, h)]
                ELSE active
        v == Get(store, name, LiteralDefault)
        absent == JSCookiesGet(store, name) = Undefined
        out == StartIntercepting(isIntercepting, cookieEnabled, conf)
        ran == [hk EXCEPT !.effect = FALSE, !.subscribed = FALSE]
    IN  /\ Idle
        /\ hk.mounted
        /\ hk.literal
        /\ hk.effect
        /\ Len(act1[name]) < MaxSubs
        /\ IF v = Throw \/ out = "threw"
           THEN /\ hooks' = [hooks EXCEPT ![h] =
                                IF v = Throw THEN ran
                                ELSE SetResult(ran, v, ReadId(v, absent, hk.did))]
                /\ subscribers' = subs1
                /\ active' = act1
                /\ UNCHANGED <<isIntercepting, installs>>
           ELSE /\ hooks' = [hooks EXCEPT ![h] =
                                [SetResult(ran, v, ReadId(v, absent, hk.did))
                                    EXCEPT !.subscribed = TRUE]]
                /\ subscribers' = PushSub(subs1, name, h)
                /\ active' = [act1 EXCEPT ![name] = Append(@, h)]
                /\ isIntercepting' = (isIntercepting \/ out = "installed")
                /\ installs' = IF out = "installed" THEN installs + 1 ELSE installs
        /\ op' = [NoOp EXCEPT !.kind = "effect", !.name = name, !.f = h,
                              !.outcome = IF v = Throw THEN "" ELSE out,
                              !.before = subscribers,
                              !.was = isIntercepting,
                              !.threw = (v = Throw \/ out = "threw")]
        /\ log' = <<>>
        /\ UNCHANGED <<store, cookieEnabled, conf, closures, stack>>

\* The component unmounts: the cleanup of the effect (lines 44-46) calls unsubscribe.
Unmount(h) ==
    LET name == HookName(h)
    IN  /\ Idle
        /\ hooks[h].mounted
        /\ hooks' = [hooks EXCEPT ![h] = Unmounted]
        /\ IF hooks[h].subscribed
           THEN /\ subscribers' = Unsub(subscribers, name, h)
                /\ active' = [active EXCEPT ![name] = RemoveFirst(@, h)]
                /\ op' = [NoOp EXCEPT !.kind = "unmount", !.name = name, !.f = h,
                                      !.before = subscribers, !.was = isIntercepting]
           ELSE /\ UNCHANGED <<subscribers, active>>
                /\ op' = [NoOp EXCEPT !.kind = "unmount", !.was = isIntercepting]
        /\ log' = <<>>
        /\ UNCHANGED <<store, isIntercepting, cookieEnabled, conf, closures, stack,
                       installs>>

\* The setter useCookie returns (lines 50-52)
HookSet(h, value) ==
    /\ Idle
    /\ hooks[h].mounted
    /\ TopWrite("hookset", h, value, SetRaw(HookName(h), value))

-----------------------------------------------------------------------------
(* Dispatch: forEach((f) => f(newValue, oldValue)), line 125 *)

NoWrite == <<>>

\* What callback f does when called with newValue under name: the closure of
\* a hook sets the state (in Invoke); "w" sets cookie a to "x" unless that
\* is the value it was told; "o" calls its own unsubscribe closure for
\* name and then sets the cookie it listened to to "x".
CallbackUnsubs(f) == f = "o"
CallbackWrite(f, name, newValue) ==
    IF f = "w" /\ newValue # Str(ValX) THEN SetRaw(NameA, Str(ValX))
    ELSE IF f = "o" THEN SetRaw(name, Str(ValX))
    ELSE NoWrite

\* forEach calls the next callback of the innermost dispatch.
Invoke ==
    /\ ~Idle
    /\ LET d == Len(stack)
           fr == stack[d]
           f == subscribers[fr.name][fr.k + 1]
           stack1 == [stack EXCEPT ![d].k = fr.k + 1]
           subs1 == IF CallbackUnsubs(f) THEN Unsub(subscribers, fr.name, f)
                    ELSE subscribers
           raw == CallbackWrite(f, fr.name, fr.new)
           r == IF raw = NoWrite
                THEN [store |-> store, threw |-> FALSE, events |-> <<>>, frames |-> NoFrame]
                ELSE Setter(store, subs1, raw, d)
           call == CallEvent(f, fr.name, fr.new, fr.old, d, f \notin Range(active[fr.name]))
       IN  /\ subscribers' = subs1
           /\ active' = IF CallbackUnsubs(f)
                        THEN [active EXCEPT ![fr.name] = RemoveFirst(@, f)]
                        ELSE active
           /\ hooks' = IF f \in Hooks /\ hooks[f].mounted
                       THEN [hooks EXCEPT ![f] = SetResult(@, fr.new, ReadId(fr.new, FALSE, 0))]
                       ELSE hooks
           /\ store' = r.store
           \* an exception leaves every forEach in progress
           /\ stack' = IF r.threw THEN <<>> ELSE Unwind(stack1 \o r.frames, subs1)
           /\ log' = log \o <<call>>
                         \o (IF CallbackUnsubs(f) THEN <<UnsubEvent(f, fr.name, d)>> ELSE <<>>)
                         \o r.events
           /\ op' = [op EXCEPT !.threw = (op.threw \/ r.threw)]
    /\ UNCHANGED <<isIntercepting, cookieEnabled, conf, closures, installs>>

-----------------------------------------------------------------------------

RegistryOps ==
    \/ \E p \in GenericSubs : Subscribe(p[1], p[2])
    \/ \E p \in GenericSubs : Unsubscribe(p[1], p[2])
    \/ \E h \in Hooks : Mount(h)
    \/ \E h \in Hooks : Unmount(h)

TopWrites ==
    \/ \E raw \in DirectWrites : Assign(raw)
    \/ \E c \in SetCalls : CookiesSet(c[1], c[2])
    \/ \E h \in Hooks, v \in HookValues : HookSet(h, v)

WriteOps == TopWrites \/ Invoke

Next == EnvChange(Envs) \/ RegistryOps \/ WriteOps

Spec == Init /\ [][Next]_vars

\* The registry alone: no cookie is written.
NextRegistry == EnvChange(Envs) \/ RegistryOps
SpecRegistry == Init /\ [][NextRegistry]_vars

\* A page where the interceptor can be installed: cookies stay enabled and
\* the property configurable.
NextNotify == RegistryOps \/ WriteOps
SpecNotify == Init /\ [][NextNotify]_vars

\* Degraded mode: the page is loaded with cookies disabled, and the
\* environment never becomes one in which the interceptor is installed.
InitDegraded ==
    /\ store = EmptyStore
    /\ subscribers = EmptyRegistry
    /\ isIntercepting = FALSE
    /\ cookieEnabled = FALSE
    /\ conf = "free"
    /\ closures = {}
    /\ hooks = [h \in Hooks |-> Unmounted]
    /\ stack = <<>>
    /\ installs = 0
    /\ active = [n \in Names |-> <<>>]
    /\ op = NoOp
    /\ log = <<>>
NextDegraded == EnvChange(DegradedEnvs) \/ RegistryOps \/ TopWrites
SpecDegraded == InitDegraded /\ [][NextDegraded]_vars

\* Cookies.set and Cookies.get called by application code for one cookie,
\* before and after some other code subscribed (to another cookie).
NextCodec ==
    \/ Subscribe(NameB, "o")
    \/ Unsubscribe(NameB, "o")
    \/ \E c \in CodecCalls : CookiesSet(c[1], c[2])
SpecCodec == Init /\ [][NextCodec]_vars

\* Direct assignments to document.cookie, with and without "=", on a page
\* where the interceptor can be installed.
NextPassthrough ==
    \/ RegistryOps
    \/ \E raw \in PassthroughWrites : Assign(raw)
    \/ Invoke
SpecPassthrough == Init /\ [][NextPassthrough]_vars

\* A component that passes an object literal as default: it mounts and
\* unmounts and its setter is called (external events); the framework
\* re-renders it and runs its effect when they are due, and a dispatch that
\* has started runs to its end.
ExternalStep ==
    \/ \E h \in LiteralHooks : MountLiteral(h)
    \/ \E h \in LiteralHooks : Unmount(h)
    \/ \E h \in LiteralHooks, v \in HookLiteralValues : HookSet(h, v)
Rerenders == \E h \in LiteralHooks : Rerender(h)
RunEffects == \E h \in LiteralHooks : RunEffect(h)
InternalStep == Invoke \/ Rerenders \/ RunEffects
NextHook == ExternalStep \/ InternalStep
SpecHook ==
    /\ Init
    /\ [][NextHook]_vars
    /\ WF_vars(Invoke)
    /\ WF_vars(Rerenders)
    /\ WF_vars(RunEffects)

-----------------------------------------------------------------------------
(* Properties of the registry *)

\* The last operation called an unsubscribe closure from application code:
\* the closure of op.f under op.name, with the registry op.before.
UnsubscribeCalled == op.kind \in {"unsubscribe", "unmount"} /\ op.f # ""

\* C1: the unsubscribe closure of subscribe(name, cb) removes exactly one
\* instance of cb from the entry of name: the callbacks subscribed before and
\* after it stay, in their order, and the entries of other names are unchanged.
C1_UnsubscribeRemovesOnlyItsCallback ==
    (UnsubscribeCalled /\ op.f \in Range(op.before[op.name]))
        => subscribers = [op.before EXCEPT ![op.name] = RemoveFirst(@, op.f)]

\* C2: calling an unsubscribe closure whose callback is no longer in the
\* registry removes nothing: the registry is the same before and after.
C2_RepeatedUnsubscribeIsNoOp ==
    (UnsubscribeCalled /\ op.f \notin Range(op.before[op.name]))
        => subscribers = op.before

\* C8: the interceptor is installed at most once: Object.defineProperty is
\* called at most one time, the flag is set from then on, and a subscribe
\* call made with the flag set takes no installation step.
C8_InstalledAtMostOnce ==
    /\ installs <= 1
    /\ isIntercepting <=> installs = 1
    \* op.outcome is "" when subscribe was not reached
    /\ (op.kind \in {"subscribe", "mount"} /\ op.was /\ op.outcome # "")
          => op.outcome = "already"

\* A subscribe call was made after the installation, with two callbacks
\* registered under a.
C8_Witness ==
    /\ op.kind = "subscribe"
    /\ op.was
    /\ installs = 1
    /\ NameA \in DOMAIN subscribers
    /\ Len(subscribers[NameA]) >= 2

-----------------------------------------------------------------------------
(* Properties of the notification *)

IsWrite == op.kind \in {"assign", "set", "hookset"}

\* The last operation assigned a cookie-shaped text to document.cookie with
\* the interceptor installed.
InterceptedWrite == IsWrite /\ op.was /\ Includes(op.raw, "=") /\ op.name \in Names

\* That write and its dispatch are over and raised no exception.
WriteCompleted == InterceptedWrite /\ Idle /\ ~op.threw

NoUnsubscribeInDispatch == \A i \in 1..Len(log) : log[i].e # "unsub"
NoNestedWrite == \A i \in 1..Len(log) : log[i].e = "orig" => log[i].d = 0

IsOuterCall(e) == e.e = "call" /\ e.d = 1
\* The callbacks the forEach of the outermost write has called, in order.
OuterCalls == SelectSeq(log, IsOuterCall)

\* What the callbacks of the last write are to be told: the value read
\* right after the real write and the value read right before it.
ExpectedCall(f) ==
    CallEvent(f, op.name, Get(op.post, op.name, Null), Get(op.pre, op.name, Null), 1, FALSE)

\* C3: with the interceptor installed, a callback subscribed to name and not
\* unsubscribed is called exactly once for every cookie-shaped write to name,
\* with (value after the write, value before it).  Stated for the callbacks
\* of hooks (each is subscribed once, by its own effect, and unsubscribed only
\* by its own cleanup) and for writes that raise no exception and during
\* whose dispatch no callback unsubscribes.
C3_RegisteredCallbackNotifiedOnce ==
    (WriteCompleted /\ NoUnsubscribeInDispatch)
        => \A f \in Range(op.expect) \cap Hooks :
              Cardinality({i \in 1..Len(log) : log[i] = ExpectedCall(f)}) = 1

\* C4: a callback is called for a write to name only while one of its
\* subscriptions under name is open: once its unsubscribe closure has been
\* called it is not called again, also for a write issued during a dispatch.
C4_NoCallAfterUnsubscribe ==
    \A i \in 1..Len(log) : log[i].e = "call" => ~log[i].stale

\* The callback "o" unsubscribed itself during the dispatch of a write to b
\* and then wrote b from inside that dispatch; that write was dispatched too.
C4_Witness ==
    /\ Idle
    /\ \E i, j \in 1..Len(log) :
        /\ i < j
        /\ log[i] = UnsubEvent("o", NameB, 1)
        /\ log[j].e = "orig"
        /\ log[j].d = 1
        /\ RawName(log[j].raw) = NameB
    /\ "o" \notin Range(active[NameB])

IsHook(f) == f \in Hooks
IsOuterHookCall(e) == IsOuterCall(e) /\ e.f \in Hooks
OuterHookCalls == SelectSeq(log, IsOuterHookCall)

\* C5: a write to name notifies all callbacks subscribed to it and not
\* unsubscribed, in the order in which they subscribed, whatever other
\* subscribers subscribed or unsubscribed before.  Stated for the callbacks
\* of hooks, as C3 is.
C5_AllNotifiedInSubscriptionOrder ==
    (WriteCompleted /\ NoUnsubscribeInDispatch)
        => [i \in 1..Len(OuterHookCalls) |-> OuterHookCalls[i].f]
               = SelectSeq(op.expect, IsHook)

\* C6: with the interceptor installed, after a write to n completes the
\* state of every hook mounted on n is the value just written, whatever hooks
\* mounted or unmounted before.  Stated for writes during whose dispatch no
\* callback writes or unsubscribes.
C6_MountedHooksObserveEveryWrite ==
    (WriteCompleted /\ NoUnsubscribeInDispatch /\ NoNestedWrite)
        => \A h \in Hooks :
              (hooks[h].mounted /\ hooks[h].subscribed /\ HookName(h) = op.name)
                  => hooks[h].result = Get(store, op.name, Null)

\* C7: with the interceptor installed, every assignment of a text to
\* document.cookie calls the original setter exactly once, with that text.
C7_RealWriteNeverBlocked ==
    (IsWrite /\ op.was)
        => Cardinality({i \in 1..Len(log) : log[i] = OrigEvent(op.raw, 0)}) = 1

\* C9 as stated: between the old-value capture of a write and the end of its
\* dispatch the original setter is not called for another write.
C9_NoWriteDuringDispatch == NoNestedWrite

\* C9 as amended: an intercepted write reads the old value, calls the
\* original setter, reads the new value and then notifies, in that order, and
\* any other write made before its dispatch ends is made by a subscriber that
\* dispatch has just called (a nested write, itself such a sequence).
C9_NestedWritesOnly ==
    /\ InterceptedWrite =>
        /\ log # <<>>
        /\ log[1] \in {OrigEvent(op.raw, 0), ThrowEvent(0)}
        /\ \A i \in 1..Len(log) : IsOuterCall(log[i]) =>
              /\ i > 1
              /\ log[i].new = Get(op.post, op.name, Null)
              /\ log[i].old = Get(op.pre, op.name, Null)
    /\ \A j \in 1..Len(log) :
          (log[j].e \in {"orig", "throw"} /\ log[j].d > 0) =>
              \E i \in 1..(j - 1) :
                  /\ log[i].e = "call"
                  /\ log[i].d = log[j].d
                  /\ \A k \in (i + 1)..(j - 1) :
                        log[k].d = log[j].d /\ log[k].e \in {"unsub", "orig"}
    /\ ~Idle => IsWrite

\* A hook was told of a write that changed cookie a, then "w" wrote a from
\* inside the dispatch and the hook was told of that write too.
C9_Witness ==
    /\ Idle
    /\ InterceptedWrite
    /\ Get(op.pre, op.name, Null) # Get(op.post, op.name, Null)
    /\ \E i, j, k \in 1..Len(log) :
        /\ i < j /\ j < k
        /\ log[i].e = "call" /\ log[i].f = "w" /\ log[i].d = 1
        /\ log[j].e = "orig" /\ log[j].d = 1
        /\ log[k].e = "call" /\ log[k].f \in Hooks /\ log[k].d = 2
    /\ \E i \in 1..Len(log) : IsOuterCall(log[i]) /\ log[i].f \in Hooks

\* C17: with the interceptor installed and no dispatch in progress, the
\* state of every mounted hook (whose effect completed) is what
\* Cookies.get(name, defaultValue) returns, whenever that read succeeds.
C17_HookStateIsFreshRead ==
    (Idle /\ isIntercepting)
        => \A h \in Hooks :
              (/\ hooks[h].mounted
               /\ hooks[h].subscribed
               /\ Get(store, HookName(h), DefaultValue) # Throw)
                  => hooks[h].result = Get(store, HookName(h), DefaultValue)

\* The callbacks application code and hooks ever subscribe under name n.
SubscribersOf(n) ==
    {p[2] : p \in {q \in GenericSubs : q[1] = n}} \cup {h \in Hooks : HookName(h) = n}

\* Every callback called so far was called for a write to the name it
\* subscribed under: the write is the last call of the original setter made
\* one level further out.
CallsMatchWrite ==
    \A j \in 1..Len(log) : log[j].e = "call" =>
        /\ log[j].f \in SubscribersOf(log[j].name)
        /\ \E i \in 1..(j - 1) :
              /\ log[i].e = "orig"
              /\ log[i].d = log[j].d - 1
              /\ Includes(log[i].raw, "=")
              /\ RawName(log[i].raw) = log[j].name
              /\ \A k \in (i + 1)..(j - 1) :
                    ~(log[k].e = "orig" /\ log[k].d = log[j].d - 1)

\* A step changes the registry entry of at most one name: the name a
\* subscribe or unsubscribe call of application code or of a hook was made
\* for, or the name of the dispatch during which a callback unsubscribed.
RegistryIsolated ==
    \A n \in Names :
        Entry(subscribers', n) # Entry(subscribers, n) =>
            IF Idle
            THEN op'.kind \in {"subscribe", "unsubscribe", "mount", "unmount", "effect"}
                 /\ n = op'.name
            ELSE n = stack[Len(stack)].name

\* C18: a write to name A calls only callbacks subscribed under A, and a
\* subscribe or unsubscribe under A leaves the registry entry of every other
\* name as it was.
C18_NotificationsIsolatedPerName ==
    [][CallsMatchWrite' /\ RegistryIsolated]_vars

\* A write to a was dispatched to a hook while "o" was subscribed under b,
\* and was not called.
C18_Witness ==
    /\ Idle
    /\ InterceptedWrite
    /\ op.name = NameA
    /\ "o" \in Range(Entry(subscribers, NameB))
    /\ \E i \in 1..Len(log) : log[i].e = "call" /\ log[i].f \in Hooks
    /\ \A i \in 1..Len(log) : log[i].f # "o"

\* No dispatch is in progress and no hook has a re-render or an effect due.
HookQuiescent ==
    /\ Idle
    /\ \A h \in Hooks : ~hooks[h].dirty /\ ~hooks[h].effect

\* C19: a mounted hook comes to rest: if from some point on no external
\* event occurs (no mount, unmount or setter call), then from some point on
\* no re-render and no effect run is due, also for a default that is a new
\* object on every render and a cookie value that is a new object on every
\* read.
C19_HookReachesQuiescence ==
    <>[][InternalStep]_vars => <>[]HookQuiescent

-----------------------------------------------------------------------------
(* Degraded mode *)

\* C10: without the interceptor, when the setter of a mounted hook is called
\* with v the cookie is written and the state of that hook becomes v.
C10_WriterSeesItsOwnWrite ==
    (op.kind = "hookset" /\ ~op.was /\ op.value # Undefined)
        => /\ Get(store, HookName(op.f), DefaultValue) = op.value
           /\ hooks[op.f].result = op.value

\* C11: while navigator.cookieEnabled is false (and was when the first
\* subscribe call was made) the interceptor is not installed, no write starts
\* a dispatch or calls a callback, Cookies.set raises nothing and a
\* following Cookies.get returns the value set, or the default after a removal.
C11_DisabledCookiesNoNotification ==
    ~cookieEnabled =>
        /\ ~isIntercepting
        /\ installs = 0
        /\ Idle
        /\ \A i \in 1..Len(log) : log[i].e # "call"
        \* a subscribe call was made (by a hook: after its read of the cookie)
        /\ (op.kind \in {"subscribe", "mount"} /\ op.outcome # "") =>
              /\ op.outcome = "disabled"
              /\ ~op.threw
              /\ op.f \in Range(Entry(subscribers, op.name))
        /\ (op.kind \in {"set", "hookset"}) =>
              /\ ~op.threw
              /\ log = <<OrigEvent(op.raw, 0)>>
              /\ Get(store, op.name, DefaultValue)
                    = (IF op.value = Undefined THEN DefaultValue ELSE op.value)

\* With cookies disabled, Cookies.set wrote b while a callback was subscribed
\* to b, and a hook was mounted on a when a was assigned earlier.
C11_Witness ==
    /\ ~cookieEnabled
    /\ op.kind = "set"
    /\ op.name = NameB
    /\ "o" \in Range(Entry(subscribers, NameB))
    /\ NameA \in DOMAIN store
    /\ \E h \in Hooks : hooks[h].mounted /\ h \in Range(Entry(subscribers, NameA))

\* C16: with the interceptor installed, an assignment to document.cookie of a
\* text without "=" hands that text to the original setter and does nothing
\* else: it raises nothing (no stored value is parsed), starts no dispatch,
\* calls no callback, and leaves the registry, the flag and the hooks as
\* they were.
C16_NoEqualsPassthrough ==
    [][(Idle /\ isIntercepting /\ op'.kind = "assign" /\ ~Includes(op'.raw, "="))
          => /\ store' = OrigSetCookie(store, op'.raw)
             /\ log' = <<OrigEvent(op'.raw, 0)>>
             /\ ~op'.threw
             /\ stack' = <<>>
             /\ UNCHANGED <<subscribers, isIntercepting, hooks, closures, installs, active>>
      ]_vars

\* The text "a" was assigned with the interceptor installed while a hook and
\* "w" were subscribed to cookie a and cookie a held text that does not parse.
C16_Witness ==
    /\ op.kind = "assign"
    /\ op.was
    /\ op.raw = NameA
    /\ NoName \in DOMAIN store
    /\ store[NoName] = NameA
    /\ NameA \in DOMAIN store
    /\ store[NameA] = ValBadJson
    /\ "w" \in Range(Entry(subscribers, NameA))
    /\ \E h \in Hooks : h \in Range(Entry(subscribers, NameA))

\* C15: a subscribe call made while the cookie property cannot be
\* reconfigured raises nothing, leaves the flag unset and the accessor alone,
\* appends the callback and returns its closure; from then on writes still
\* reach the store and call no callback.
C15_BlockedInstallationDegrades ==
    (cookieEnabled /\ conf # "free" /\ ~isIntercepting) =>
        /\ (op.kind \in {"subscribe", "mount"} /\ op.outcome # "") =>
              /\ ~op.threw
              /\ op.outcome = "blocked"
              /\ installs = 0
              /\ op.f \in Range(Entry(subscribers, op.name))
              /\ op.kind = "subscribe" => HasClosure(op.name, op.f)
              /\ op.kind = "mount" => hooks[op.f].subscribed
        /\ Idle
        /\ \A i \in 1..Len(log) : log[i].e # "call"
        /\ (op.kind \in {"set", "hookset"}) =>
              /\ ~op.threw
              /\ log = <<OrigEvent(op.raw, 0)>>

-----------------------------------------------------------------------------
(* Values *)

\* C12: after Cookies.set(name, v) with a string v, which raises nothing,
\* Cookies.get(name, d) returns the string v, for any default d.
C12_StringRoundTrip ==
    (op.kind = "set" /\ op.value.t = "string")
        => /\ ~op.threw
           /\ \A d \in Defaults : Get(store, op.name, d) = op.value

\* C13: Cookies.set(name, s) with a structured (non-string) s raises nothing
\* and stores "json:" followed by the JSON text of s, and Cookies.get(name, d)
\* then returns a value equal to s, for any default d.
C13_StructuredRoundTrip ==
    (op.kind = "set" /\ op.value.t \in {"number", "null", "object"})
        => /\ ~op.threw
           /\ JSCookiesGet(store, op.name) = Str(JsonPrefix \o JSONStringify(op.value))
           /\ \A d \in Defaults : Get(store, op.name, d) = op.value

\* C14: Cookies.get(name, d) returns d when no cookie is stored under name,
\* and Cookies.set(name, undefined) raises nothing and leaves no cookie
\* under name, whatever was stored there.
C14_AbsentCookieGivesDefault ==
    /\ \A n \in Names, d \in Defaults :
          n \notin DOMAIN store => Get(store, n, d) = d
    /\ (op.kind = "set" /\ op.value = Undefined)
          => /\ ~op.threw
             /\ op.name \notin DOMAIN store
             /\ \A d \in Defaults : Get(store, op.name, d) = d

====
